---- MODULE Spec2Model ----
(***************************************************************************)
(* A model of SqlSupport_V2.py: the PAN detection kernel (sanitising,      *)
(* the \d{13,19} extraction, the Luhn check, masking) and the scan loop    *)
(* of scan_hosts_and_databases over hosts, databases, tables and rows,     *)
(* with the MySQL driver as a collaborator whose calls may fail.           *)
(*                                                                         *)
(* A Python str is a sequence of one-character strings.                    *)
(***************************************************************************)
EXTENDS Integers, Sequences, FiniteSets, TLC

VARIABLES
    pc,               \* the place of scan_hosts_and_databases in its code
    hi, di, ti, ri,   \* 1-based positions of the host, database, table, row loops
    conn,             \* the connection `conn` refers to, or None
    tables_cursor,    \* the cursor `tables_cursor` refers to, or None
    table_cursor,     \* the cursor `table_cursor` refers to, or None
    tables,           \* the list `tables` of the current database
    columns_to_scan,  \* the list `columns_to_scan` of the current table
    rows,             \* the list `rows` of the current table
    all_findings,     \* the list `all_findings`
    report,           \* report_df, a list of rows, once built
    openConns,        \* driver: connections that are connected and not closed
    lostConns,        \* driver: connections the server side has dropped
    openCursors,      \* driver: cursors created on which close() was not called
    attemptedDbs,     \* history: the <<host, database>> positions whose connect was called
    attemptedTables,  \* history: the <<host, database, table>> positions whose try block was entered
    listed,           \* history: the table list SHOW TABLES returned, per <<host, database>>
    failed,           \* history: the driver calls that raised, <<host, database, table, call>>
    arg,              \* the argument of the pure function under check
    ret,              \* its result
    called            \* whether it has been applied

scanVars == <<pc, hi, di, ti, ri, conn, tables_cursor, table_cursor, tables,
              columns_to_scan, rows, all_findings, report, openConns, lostConns,
              openCursors, attemptedDbs, attemptedTables, listed, failed>>
fnVars == <<arg, ret, called>>
vars == <<scanVars, fnVars>>

----------------------------------------------------------------------------
(* Strings *)

DigitChars == {"0", "1", "2", "3", "4", "5", "6", "7", "8", "9"}

Rep(c, n) == [i \in 1..n |-> c]

IsDigitString(s) == \A i \in 1..Len(s) : s[i] \in DigitChars

\* s with the character at position i replaced by c
Edit(s, i, c) == [s EXCEPT ![i] = c]

\* whether k occurs in s as a contiguous substring (Python's `k in s`)
Contains(s, k) ==
    \E i \in 1..(Len(s) - Len(k) + 1) : SubSeq(s, i, i + Len(k) - 1) = k

----------------------------------------------------------------------------
(* is_luhn_valid *)

\* what the except clause of is_luhn_valid catches: int(c) of a character
\* that is no digit raises ValueError
ValueError == -1

\* int(card_number[i]) of one character
IntOf(c) ==
    CASE c = "0" -> 0 [] c = "1" -> 1 [] c = "2" -> 2 [] c = "3" -> 3
      [] c = "4" -> 4 [] c = "5" -> 5 [] c = "6" -> 6 [] c = "7" -> 7
      [] c = "8" -> 8 [] c = "9" -> 9 [] OTHER -> ValueError

RECURSIVE LuhnLoopNoDigitSum(_, _, _, _)
\* mutant: the doubled digit is added as it is, its two digits are not summed
LuhnLoopNoDigitSum(card_number, i, n_sum, is_second) ==
    IF i < 1 THEN n_sum
    ELSE LET v == IntOf(card_number[i]) IN
         IF v = ValueError THEN ValueError
         ELSE LET d == IF is_second THEN v * 2 ELSE v IN
              LuhnLoopNoDigitSum(card_number, i - 1, n_sum + d, ~is_second)

RECURSIVE LuhnLoop(_, _, _, _)
\* the for loop of is_luhn_valid from index i (1-based) down to the first
\* character: n_sum at its end, or ValueError as soon as int() raises
LuhnLoop(card_number, i, n_sum, is_second) ==
    IF i < 1 THEN n_sum
    ELSE LET v == IntOf(card_number[i]) IN
         IF v = ValueError THEN ValueError
         ELSE LET d == IF is_second THEN v * 2 ELSE v IN
              LuhnLoop(card_number, i - 1, n_sum + (d \div 10) + (d % 10), ~is_second)

is_luhn_valid(card_number) ==
    LET n_sum == LuhnLoop(card_number, Len(card_number), 0, FALSE) IN
    IF n_sum = ValueError THEN FALSE ELSE n_sum % 10 = 0

----------------------------------------------------------------------------
(* mask_pan *)

InvalidPAN == <<"I","n","v","a","l","i","d"," ","P","A","N">>

MaskMinLen == 10
MaskHead == 6
MaskTail == 4

\* mutant: the masked middle is one character short
mask_pan_short(pan) ==
    IF Len(pan) < MaskMinLen THEN InvalidPAN
    ELSE SubSeq(pan, 1, MaskHead) \o Rep("*", Len(pan) - MaskMinLen - 1)
         \o SubSeq(pan, Len(pan) - MaskTail + 1, Len(pan))

mask_pan(pan) ==
    IF Len(pan) < MaskMinLen THEN InvalidPAN
    ELSE SubSeq(pan, 1, MaskHead) \o Rep("*", Len(pan) - MaskMinLen)
         \o SubSeq(pan, Len(pan) - MaskTail + 1, Len(pan))

----------------------------------------------------------------------------
(* the sanitiser and pan_regex *)

\* mutant: only hyphens are removed, spaces stay
SanitizeDashesOnly(cell_value) == SelectSeq(cell_value, LAMBDA c : c # "-")

\* cell_value.replace(' ', '').replace('-', '')
Sanitize(cell_value) ==
    SelectSeq(SelectSeq(cell_value, LAMBDA c : c # " "), LAMBDA c : c # "-")

MinPanLen == 13
MaxPanLen == 19

RECURSIVE DigitRun(_, _)
\* the number of consecutive digits of s from position p on
DigitRun(s, p) ==
    IF p > Len(s) \/ s[p] \notin DigitChars THEN 0 ELSE 1 + DigitRun(s, p + 1)

Min(a, b) == IF a < b THEN a ELSE b

RECURSIVE FindAllFrom(_, _)
\* pan_regex.findall(s) from position p on: at each position the greedy
\* \d{13,19} takes as many digits as there are, up to 19; a match is kept
\* when it has at least 13 and the search goes on right after it
FindAllFrom(s, p) ==
    IF p > Len(s) THEN <<>>
    ELSE LET m == Min(DigitRun(s, p), MaxPanLen) IN
         IF m >= MinPanLen
         THEN <<SubSeq(s, p, p + m - 1)>> \o FindAllFrom(s, p + m)
         ELSE FindAllFrom(s, p + 1)

FindAll(s) == FindAllFrom(s, 1)

----------------------------------------------------------------------------
(* the configuration and the MySQL server the driver talks to *)

None == <<>>

\* HOST_CONFIGS, with the commented-out second host (an empty database list)
\* and a third host, so that a database is followed by another host
HOST_CONFIGS ==
    << [name |-> "Localhost Server", host |-> "127.0.0.1",
        databases |-> <<"master", "customer_data">>],
       [name |-> "Staging Server", host |-> "192.168.1.50", databases |-> <<>>],
       [name |-> "Archive Server", host |-> "10.0.0.7", databases |-> <<"master">>] >>

Visa16 == <<"4">> \o Rep("1", 15)
Visa16Wrong == <<"4">> \o Rep("1", 14) \o <<"2">>
Master16 == <<"5","5","0","0","0","0","5","5","5","5","5","5","5","5","5","9">>
Amex15 == <<"3","4","3","4","3","4","3","4","3","4","3","4","3","4","3">>
Visa16Spaced ==
    <<"4","1","1","1"," ","1","1","1","1"," ","1","1","1","1"," ","1","1","1","1">>
Visa16Dashed ==
    <<"4","1","1","1","-","1","1","1","1","-","1","1","1","1","-","1","1","1","1">>

\* a byte that is no valid UTF-8, which decode(errors='ignore') drops
BadByte == "0xFF"

\* cell values as the driver returns them: None, str, bytes, int (in decimal)
Null == [kind |-> "null", v |-> <<>>]
StrCell(s) == [kind |-> "str", v |-> s]
BytesCell(b) == [kind |-> "bytes", v |-> b]
IntCell(digits) == [kind |-> "int", v |-> digits]

T_INT == <<"I","N","T">>
T_VARCHAR255 == <<"V","A","R","C","H","A","R","(","2","5","5",")">>
T_bigint == <<"b","i","g","i","n","t","(","2","0",")">>
T_int11 == <<"i","n","t","(","1","1",")">>
T_datetime == <<"d","a","t","e","t","i","m","e">>
T_VarChar64 == <<"V","a","r","C","h","a","r","(","6","4",")">>
T_longtext == <<"l","o","n","g","t","e","x","t">>
T_json == <<"j","s","o","n">>
T_blob == <<"b","l","o","b">>
T_Text == <<"T","e","x","t">>
T_char4 == <<"c","h","a","r","(","4",")">>

\* what SHOW TABLES returns for a database of a host
ShowTablesResult(host, db) ==
    CASE host = "127.0.0.1" /\ db = "master" -> <<"audit", "cards">>
      [] host = "127.0.0.1" /\ db = "customer_data" -> <<"profiles">>
      [] host = "10.0.0.7" /\ db = "master" -> <<"log">>
      [] OTHER -> <<>>

\* what DESCRIBE returns: the <<name, type>> of each column, in order
DescribeResult(host, db, table) ==
    CASE table = "cards" ->
           << <<"id", T_INT>>, <<"acct", T_bigint>>, <<"note", T_VARCHAR255>> >>
      [] table = "audit" -> << <<"id", T_int11>>, <<"at", T_datetime>> >>
      [] table = "profiles" ->
           << <<"name", T_VarChar64>>, <<"bio", T_longtext>>,
              <<"doc", T_json>>, <<"pic", T_blob>> >>
      [] table = "log" -> << <<"msg", T_Text>>, <<"code", T_char4>> >>
      [] OTHER -> <<>>

\* what SELECT * returns: the rows, each a tuple of cells in column order
SelectResult(host, db, table) ==
    CASE table = "cards" ->
           << <<IntCell(<<"1">>), IntCell(Master16),
                StrCell(<<"n","o"," ","c","a","r","d"," ","h","e","r","e">>)>>,
              <<IntCell(<<"2">>), IntCell(Visa16), StrCell(Visa16Dashed)>>,
              <<IntCell(<<"3">>), Null,
                StrCell(<<"1","2","3","4","5","6","7","8","9","0","1","2","3">>)>> >>
      [] table = "audit" -> << <<IntCell(<<"1">>), StrCell(<<"2","0","2","4">>)>> >>
      [] table = "profiles" ->
           << <<StrCell(<<"u","s","e","r"," ","7">>),
                BytesCell(SubSeq(Visa16Spaced, 1, 9) \o <<BadByte>> \o SubSeq(Visa16Spaced, 10, 19)),
                StrCell(<<"{","k",":">> \o Amex15 \o <<"}">>),
                BytesCell(Visa16)>>,
              <<StrCell(<<"5","5","0","0"," ","0","0","5","5"," ","5","5","5","5"," ","5","5","5","9">>),
                Null,
                StrCell(<<"c","a","r","d","=">> \o <<"4">> \o Rep("1", 19) \o <<";">>),
                Null>>,
              <<StrCell(Visa16 \o <<",">> \o Amex15), Null, Null, Null>> >>
      [] table = "log" -> << <<StrCell(Visa16Dashed), StrCell(<<"a","b","1","2">>)>> >>
      [] OTHER -> <<>>

----------------------------------------------------------------------------
(* the column filter and the scan of one row *)

LowerLetters == <<"a","b","c","d","e","f","g","h","i","j","k","l","m",
                  "n","o","p","q","r","s","t","u","v","w","x","y","z">>
UpperLetters == <<"A","B","C","D","E","F","G","H","I","J","K","L","M",
                  "N","O","P","Q","R","S","T","U","V","W","X","Y","Z">>

\* str.upper()
Upper(s) ==
    [i \in 1..Len(s) |->
        IF \E k \in 1..26 : LowerLetters[k] = s[i]
        THEN UpperLetters[CHOOSE k \in 1..26 : LowerLetters[k] = s[i]]
        ELSE s[i]]

TextTypes ==
    << <<"C","H","A","R">>, <<"V","A","R","C","H","A","R">>, <<"T","E","X","T">>,
       <<"T","I","N","Y","T","E","X","T">>, <<"M","E","D","I","U","M","T","E","X","T">>,
       <<"L","O","N","G","T","E","X","T">>, <<"J","S","O","N">> >>

\* mutant: the type string is compared as it is, .upper() is left out
ColumnSelectedCaseSensitive(type) ==
    \E k \in 1..Len(TextTypes) : Contains(type, TextTypes[k])

\* the condition of the list comprehension of columns_to_scan
ColumnSelected(type) ==
    \E k \in 1..Len(TextTypes) : Contains(Upper(type), TextTypes[k])

RECURSIVE ColumnsToScan(_)
\* [col[0] for col in fetchall() if ...]
ColumnsToScan(described) ==
    IF described = <<>> THEN <<>>
    ELSE (IF ColumnSelected(Head(described)[2]) THEN <<Head(described)[1]>> ELSE <<>>)
         \o ColumnsToScan(Tail(described))

\* column_names.index(col_name), 1-based
IndexOf(column_names, col_name) ==
    CHOOSE i \in 1..Len(column_names) :
        /\ column_names[i] = col_name
        /\ \A j \in 1..(i - 1) : column_names[j] # col_name

\* cell_value: "" for None, the lossy UTF-8 decoding of bytes, str() otherwise
CellText(cell_value_raw) ==
    CASE cell_value_raw.kind = "null" -> <<>>
      [] cell_value_raw.kind = "bytes" ->
           SelectSeq(cell_value_raw.v, LAMBDA b : b # BadByte)
      [] OTHER -> cell_value_raw.v

\* mutant: the row ordinal is the 0-based row_index
LocationOfZeroBased(host_config, db_name, table_name, col_name, row_index) ==
    [Host |-> host_config.host, DB |-> db_name, Table |-> table_name,
     Column |-> col_name, Row |-> row_index]

\* the fields of the location string "Host: .., DB: .., Table: .., Column: .., Row: .."
LocationOf(host_config, db_name, table_name, col_name, row_index) ==
    [Host |-> host_config.host, DB |-> db_name, Table |-> table_name,
     Column |-> col_name, Row |-> row_index + 1]

\* the findings of one cell: the Luhn-valid matches of the sanitised value
CellFindings(cell_value_raw, location) ==
    LET pans == SelectSeq(FindAll(Sanitize(CellText(cell_value_raw))), is_luhn_valid)
    IN  [k \in 1..Len(pans) |-> [PAN |-> pans[k], Location |-> location]]

RECURSIVE RowFindings(_, _, _, _, _, _, _)
\* the body of `for col_name in columns_to_scan` for one row, from column c on
RowFindings(host_config, db_name, table_name, column_names, cols, row, row_index) ==
    IF cols = <<>> THEN <<>>
    ELSE CellFindings(row[IndexOf(column_names, Head(cols))],
                      LocationOf(host_config, db_name, table_name, Head(cols), row_index))
         \o RowFindings(host_config, db_name, table_name, column_names,
                        Tail(cols), row, row_index)

\* mutant: Result # counts from 0
ResultNumbersFromZero(n) == [k \in 1..n |-> k - 1]

\* range(1, len(df) + 1)
ResultNumbers(n) == [k \in 1..n |-> k]

\* report_df: the columns Result #, Masked PAN, Location of the findings
Export(findings) ==
    [k \in 1..Len(findings) |->
        [ResultNo |-> ResultNumbers(Len(findings))[k],
         MaskedPAN |-> mask_pan(findings[k].PAN),
         Location |-> findings[k].Location]]

----------------------------------------------------------------------------
(* scan_hosts_and_databases *)

CurHost == HOST_CONFIGS[hi]
CurDb == CurHost.databases[di]
CurTable == tables[ti]

FnIdle == arg = <<>> /\ ret = <<>> /\ called = FALSE

ScanInit ==
    /\ pc = "host"
    /\ hi = 1 /\ di = 1 /\ ti = 1 /\ ri = 1
    /\ conn = None /\ tables_cursor = None /\ table_cursor = None
    /\ tables = <<>> /\ columns_to_scan = <<>> /\ rows = <<>>
    /\ all_findings = <<>>
    /\ report = None
    /\ openConns = {} /\ lostConns = {} /\ openCursors = {}
    /\ attemptedDbs = {} /\ attemptedTables = {}
    /\ listed = <<>>
    /\ failed = {}

Init == ScanInit /\ FnIdle

\* a driver call that raises mysql.connector.Error: with `lose` the server side
\* of the connection is gone as well, and is_connected() is False from then on
DriverError(lose) ==
    IF lose /\ conn \in openConns
    THEN /\ openConns' = openConns \ {conn}
         /\ lostConns' = lostConns \cup {conn}
    ELSE UNCHANGED <<openConns, lostConns>>

\* the host loop is over: on to the summary
HostsDone ==
    /\ pc = "host" /\ hi > Len(HOST_CONFIGS)
    /\ pc' = "summary"
    /\ UNCHANGED <<hi, di, ti, ri, conn, tables_cursor, table_cursor, tables,
                   columns_to_scan, rows, all_findings, report, openConns, lostConns,
                   openCursors, attemptedDbs, attemptedTables, listed, failed, fnVars>>

\* a host with no databases listed is skipped
HostSkip ==
    /\ pc = "host" /\ hi <= Len(HOST_CONFIGS)
    /\ CurHost.databases = <<>>
    /\ hi' = hi + 1
    /\ UNCHANGED <<pc, di, ti, ri, conn, tables_cursor, table_cursor, tables,
                   columns_to_scan, rows, all_findings, report, openConns, lostConns,
                   openCursors, attemptedDbs, attemptedTables, listed, failed, fnVars>>

HostEnter ==
    /\ pc = "host" /\ hi <= Len(HOST_CONFIGS)
    /\ CurHost.databases # <<>>
    /\ di' = 1
    /\ pc' = "db"
    /\ UNCHANGED <<hi, ti, ri, conn, tables_cursor, table_cursor, tables,
                   columns_to_scan, rows, all_findings, report, openConns, lostConns,
                   openCursors, attemptedDbs, attemptedTables, listed, failed, fnVars>>

\* the database loop of a host is over
DbsDone ==
    /\ pc = "db" /\ di > Len(CurHost.databases)
    /\ hi' = hi + 1
    /\ pc' = "host"
    /\ UNCHANGED <<di, ti, ri, conn, tables_cursor, table_cursor, tables,
                   columns_to_scan, rows, all_findings, report, openConns, lostConns,
                   openCursors, attemptedDbs, attemptedTables, listed, failed, fnVars>>

\* conn = None; conn = mysql.connector.connect(...)
ConnectOk ==
    /\ pc = "db" /\ di <= Len(CurHost.databases)
    /\ conn' = <<hi, di>>
    /\ openConns' = openConns \cup {<<hi, di>>}
    /\ attemptedDbs' = attemptedDbs \cup {<<hi, di>>}
    /\ pc' = "list_cursor"
    /\ UNCHANGED <<hi, di, ti, ri, tables_cursor, table_cursor, tables,
                   columns_to_scan, rows, all_findings, report, lostConns,
                   openCursors, attemptedTables, listed, failed, fnVars>>

\* mutant: a failed connect leaves the database loop of the host
ConnectFailBreak ==
    /\ pc = "db" /\ di <= Len(CurHost.databases)
    /\ conn' = None
    /\ attemptedDbs' = attemptedDbs \cup {<<hi, di>>}
    /\ di' = Len(CurHost.databases) + 1
    /\ failed' = failed \cup {<<hi, di, 0, "connect">>}
    /\ UNCHANGED <<pc, hi, ti, ri, tables_cursor, table_cursor, tables,
                   columns_to_scan, rows, all_findings, report, openConns, lostConns,
                   openCursors, attemptedTables, listed, fnVars>>

\* connect raises: the except clause continues, the finally clause finds
\* conn None, the loop goes to the next database
ConnectFail ==
    /\ pc = "db" /\ di <= Len(CurHost.databases)
    /\ conn' = None
    /\ attemptedDbs' = attemptedDbs \cup {<<hi, di>>}
    /\ di' = di + 1
    /\ failed' = failed \cup {<<hi, di, 0, "connect">>}
    /\ UNCHANGED <<pc, hi, ti, ri, tables_cursor, table_cursor, tables,
                   columns_to_scan, rows, all_findings, report, openConns, lostConns,
                   openCursors, attemptedTables, listed, fnVars>>

\* tables_cursor = conn.cursor()
TablesCursorOk ==
    /\ pc = "list_cursor" /\ conn \in openConns
    /\ tables_cursor' = <<hi, di, 0>>
    /\ openCursors' = openCursors \cup {<<hi, di, 0>>}
    /\ pc' = "show_tables"
    /\ UNCHANGED <<hi, di, ti, ri, conn, table_cursor, tables,
                   columns_to_scan, rows, all_findings, report, openConns, lostConns,
                   attemptedDbs, attemptedTables, listed, failed, fnVars>>

\* conn.cursor() raises, which it does on a connection that is gone
TablesCursorFail ==
    /\ pc = "list_cursor"
    /\ DriverError(TRUE)
    /\ pc' = "db_finally"
    /\ failed' = failed \cup {<<hi, di, 0, "cursor">>}
    /\ UNCHANGED <<hi, di, ti, ri, conn, tables_cursor, table_cursor, tables,
                   columns_to_scan, rows, all_findings, report,
                   openCursors, attemptedDbs, attemptedTables, listed, fnVars>>

\* execute("SHOW TABLES"), fetchall(), tables_cursor.close()
ShowTablesOk ==
    /\ pc = "show_tables" /\ conn \in openConns
    /\ tables' = ShowTablesResult(CurHost.host, CurDb)
    /\ listed' = [k \in DOMAIN listed \cup {Len(listed) + 1} |->
                     IF k \in DOMAIN listed THEN listed[k]
                     ELSE [db |-> <<hi, di>>, tables |-> tables']]
    /\ openCursors' = openCursors \ {tables_cursor}
    /\ ti' = 1
    /\ pc' = "table"
    /\ UNCHANGED <<hi, di, ri, conn, tables_cursor, table_cursor,
                   columns_to_scan, rows, all_findings, report, openConns, lostConns,
                   attemptedDbs, attemptedTables, failed, fnVars>>

\* execute("SHOW TABLES") raises: line 98 is not reached, the outer except
\* clause takes over
ShowTablesFail ==
    /\ pc = "show_tables"
    /\ \E lose \in BOOLEAN : DriverError(lose)
    /\ pc' = "db_finally"
    /\ failed' = failed \cup {<<hi, di, 0, "show_tables">>}
    /\ UNCHANGED <<hi, di, ti, ri, conn, tables_cursor, table_cursor, tables,
                   columns_to_scan, rows, all_findings, report,
                   openCursors, attemptedDbs, attemptedTables, listed, fnVars>>

\* the table loop of a database is over
TablesDone ==
    /\ pc = "table" /\ ti > Len(tables)
    /\ pc' = "db_finally"
    /\ UNCHANGED <<hi, di, ti, ri, conn, tables_cursor, table_cursor, tables,
                   columns_to_scan, rows, all_findings, report, openConns, lostConns,
                   openCursors, attemptedDbs, attemptedTables, listed, failed, fnVars>>

\* table_cursor = None; table_cursor = conn.cursor(buffered=True)
TableCursorOk ==
    /\ pc = "table" /\ ti <= Len(tables) /\ conn \in openConns
    /\ table_cursor' = <<hi, di, ti>>
    /\ openCursors' = openCursors \cup {<<hi, di, ti>>}
    /\ attemptedTables' = attemptedTables \cup {<<hi, di, ti>>}
    /\ pc' = "describe"
    /\ UNCHANGED <<hi, di, ti, ri, conn, tables_cursor, tables,
                   columns_to_scan, rows, all_findings, report, openConns, lostConns,
                   attemptedDbs, listed, failed, fnVars>>

\* conn.cursor(buffered=True) raises: table_cursor stays None
TableCursorFail ==
    /\ pc = "table" /\ ti <= Len(tables)
    /\ DriverError(TRUE)
    /\ table_cursor' = None
    /\ attemptedTables' = attemptedTables \cup {<<hi, di, ti>>}
    /\ pc' = "table_finally"
    /\ failed' = failed \cup {<<hi, di, ti, "cursor">>}
    /\ UNCHANGED <<hi, di, ti, ri, conn, tables_cursor, tables,
                   columns_to_scan, rows, all_findings, report,
                   openCursors, attemptedDbs, listed, fnVars>>

\* execute("DESCRIBE ..") and the list comprehension; `continue` when the
\* table has no scannable column
DescribeOk ==
    /\ pc = "describe" /\ conn \in openConns
    /\ columns_to_scan' = ColumnsToScan(DescribeResult(CurHost.host, CurDb, CurTable))
    /\ pc' = IF columns_to_scan' = <<>> THEN "table_finally" ELSE "select"
    /\ UNCHANGED <<hi, di, ti, ri, conn, tables_cursor, table_cursor, tables,
                   rows, all_findings, report, openConns, lostConns,
                   openCursors, attemptedDbs, attemptedTables, listed, failed, fnVars>>

DescribeFail ==
    /\ pc = "describe"
    /\ \E lose \in BOOLEAN : DriverError(lose)
    /\ pc' = "table_finally"
    /\ failed' = failed \cup {<<hi, di, ti, "describe">>}
    /\ UNCHANGED <<hi, di, ti, ri, conn, tables_cursor, table_cursor, tables,
                   columns_to_scan, rows, all_findings, report,
                   openCursors, attemptedDbs, attemptedTables, listed, fnVars>>

\* execute("SELECT * ..."), rows = fetchall()
SelectOk ==
    /\ pc = "select" /\ conn \in openConns
    /\ rows' = SelectResult(CurHost.host, CurDb, CurTable)
    /\ ri' = 1
    /\ pc' = "rows"
    /\ UNCHANGED <<hi, di, ti, conn, tables_cursor, table_cursor, tables,
                   columns_to_scan, all_findings, report, openConns, lostConns,
                   openCursors, attemptedDbs, attemptedTables, listed, failed, fnVars>>

SelectFail ==
    /\ pc = "select"
    /\ \E lose \in BOOLEAN : DriverError(lose)
    /\ pc' = "table_finally"
    /\ failed' = failed \cup {<<hi, di, ti, "select">>}
    /\ UNCHANGED <<hi, di, ti, ri, conn, tables_cursor, table_cursor, tables,
                   columns_to_scan, rows, all_findings, report,
                   openCursors, attemptedDbs, attemptedTables, listed, fnVars>>

\* column_names = [i[0] for i in table_cursor.description]
ColumnNames(described) == [i \in 1..Len(described) |-> described[i][1]]

\* one round of `for row_index, row in enumerate(rows)`
ScanRow ==
    /\ pc = "rows" /\ ri <= Len(rows)
    /\ all_findings' = all_findings \o
           RowFindings(CurHost, CurDb, CurTable,
                       ColumnNames(DescribeResult(CurHost.host, CurDb, CurTable)),
                       columns_to_scan, rows[ri], ri - 1)
    /\ ri' = ri + 1
    /\ UNCHANGED <<pc, hi, di, ti, conn, tables_cursor, table_cursor, tables,
                   columns_to_scan, rows, report, openConns, lostConns,
                   openCursors, attemptedDbs, attemptedTables, listed, failed, fnVars>>

RowsDone ==
    /\ pc = "rows" /\ ri > Len(rows)
    /\ pc' = "table_finally"
    /\ UNCHANGED <<hi, di, ti, ri, conn, tables_cursor, table_cursor, tables,
                   columns_to_scan, rows, all_findings, report, openConns, lostConns,
                   openCursors, attemptedDbs, attemptedTables, listed, failed, fnVars>>

\* the except and finally clauses of a table: if table_cursor: table_cursor.close()
TableFinally ==
    /\ pc = "table_finally"
    /\ openCursors' = IF table_cursor # None THEN openCursors \ {table_cursor}
                      ELSE openCursors
    /\ ti' = ti + 1
    /\ pc' = "table"
    /\ UNCHANGED <<hi, di, ri, conn, tables_cursor, table_cursor, tables,
                   columns_to_scan, rows, all_findings, report, openConns, lostConns,
                   attemptedDbs, attemptedTables, listed, failed, fnVars>>

\* the except and finally clauses of a database:
\* if conn and conn.is_connected(): conn.close()
DbFinally ==
    /\ pc = "db_finally"
    /\ openConns' = IF conn # None /\ conn \in openConns THEN openConns \ {conn}
                    ELSE openConns
    /\ di' = di + 1
    /\ pc' = "db"
    /\ UNCHANGED <<hi, ti, ri, conn, tables_cursor, table_cursor, tables,
                   columns_to_scan, rows, all_findings, report, lostConns,
                   openCursors, attemptedDbs, attemptedTables, listed, failed, fnVars>>

\* the end of the scan: no report without findings, report_df otherwise
Summary ==
    /\ pc = "summary"
    /\ report' = IF all_findings = <<>> THEN None ELSE Export(all_findings)
    /\ pc' = "done"
    /\ UNCHANGED <<hi, di, ti, ri, conn, tables_cursor, table_cursor, tables,
                   columns_to_scan, rows, all_findings, openConns, lostConns,
                   openCursors, attemptedDbs, attemptedTables, listed, failed, fnVars>>

Next ==
    \/ HostsDone \/ HostSkip \/ HostEnter
    \/ DbsDone \/ ConnectOk \/ ConnectFail
    \/ TablesCursorOk \/ TablesCursorFail
    \/ ShowTablesOk \/ ShowTablesFail
    \/ TablesDone \/ TableCursorOk \/ TableCursorFail
    \/ DescribeOk \/ DescribeFail
    \/ SelectOk \/ SelectFail
    \/ ScanRow \/ RowsDone
    \/ TableFinally \/ DbFinally
    \/ Summary

Spec == Init /\ [][Next]_vars

----------------------------------------------------------------------------
(* The scan: claims C1, C2, C8, C9, C10 *)

Range(f) == {f[x] : x \in DOMAIN f}

\* every <<host, database>> position of the configuration
ConfiguredDbs ==
    UNION {{<<h, d>> : d \in 1..Len(HOST_CONFIGS[h].databases)} :
              h \in 1..Len(HOST_CONFIGS)}

\* C1: whatever driver calls fail, the scan never stops before its end, and
\* at its end connect was called for every configured database of every
\* host and the try block was entered for every table that a successful
\* SHOW TABLES listed.
C1_FailuresAreScoped ==
    /\ pc # "done" => ENABLED Next
    /\ pc = "done" =>
          /\ attemptedDbs = ConfiguredDbs
          /\ \A k \in DOMAIN listed :
                \A t \in 1..Len(listed[k].tables) :
                    <<listed[k].db[1], listed[k].db[2], t>> \in attemptedTables

\* C1 witness: the scan ended although DESCRIBE failed on the first table of
\* the first database, whose second table still gave a finding, connect
\* failed on the second database, and the third host's database was scanned.
C1_Witness ==
    /\ pc = "done"
    /\ <<1, 1, 1, "describe">> \in failed
    /\ \E k \in 1..Len(all_findings) : all_findings[k].Location.Table = "cards"
    /\ <<1, 2, 0, "connect">> \in failed
    /\ \E k \in 1..Len(all_findings) : all_findings[k].Location.Host = "10.0.0.7"

\* C2: the Result # values of the report are 1, 2, ..., n, strictly
\* increasing, and the k-th report row is made from the k-th finding of
\* all_findings, which is the k-th one appended.
C2_ReportNumbering ==
    (pc = "done" /\ all_findings # <<>>) =>
        /\ Len(report) = Len(all_findings)
        /\ \A k \in 1..Len(report) :
              /\ report[k].ResultNo = k
              /\ report[k].Location = all_findings[k].Location
              /\ report[k].MaskedPAN = mask_pan(all_findings[k].PAN)
        /\ \A j, k \in 1..Len(report) :
              j < k => report[j].ResultNo < report[k].ResultNo

\* C2 witness: a report of at least three rows from two databases.
C2_Witness ==
    /\ pc = "done"
    /\ report # None
    /\ Len(report) >= 3
    /\ \E j, k \in 1..Len(report) : report[j].Location.DB # report[k].Location.DB

\* the character c without regard to case equals the upper-case letter u
SameLetter(c, u) ==
    \/ c = u
    \/ \E k \in 1..26 : LowerLetters[k] = c /\ UpperLetters[k] = u

\* the type string contains keyword at some place, compared case-insensitively
ContainsIgnoringCase(type, keyword) ==
    \E i \in 0..(Len(type) - Len(keyword)) :
        \A j \in 1..Len(keyword) : SameLetter(type[i + j], keyword[j])

TypeIsTextual(type) ==
    \E keyword \in { <<"C","H","A","R">>, <<"V","A","R","C","H","A","R">>,
                     <<"T","E","X","T">>, <<"T","I","N","Y","T","E","X","T">>,
                     <<"M","E","D","I","U","M","T","E","X","T">>,
                     <<"L","O","N","G","T","E","X","T">>, <<"J","S","O","N">> } :
        ContainsIgnoringCase(type, keyword)

\* the declared type of a column of a table
TypeOf(host, db, table, column) ==
    LET described == DescribeResult(host, db, table)
        c == CHOOSE c \in 1..Len(described) : described[c][1] = column
    IN  described[c][2]

\* DESCRIBE of the current table has succeeded, so columns_to_scan is that
\* of the current table, whether the table is then scanned or skipped
DescribedCurrentTable ==
    \/ pc \in {"select", "rows"}
    \/ /\ pc = "table_finally"
       /\ table_cursor = <<hi, di, ti>>
       /\ <<hi, di, ti, "describe">> \notin failed

\* C8: once columns_to_scan is computed it holds exactly the columns whose
\* declared type contains, case-insensitively, one of the seven keywords;
\* INT is not selected and VARCHAR(255) is; no finding comes from a column
\* whose type contains no keyword.
C8_ColumnFilter ==
    /\ DescribedCurrentTable =>
          LET described == DescribeResult(CurHost.host, CurDb, CurTable) IN
          /\ \A c \in 1..Len(described) :
                (described[c][1] \in Range(columns_to_scan))
                    <=> TypeIsTextual(described[c][2])
          /\ \A c \in 1..Len(described) :
                /\ described[c][2] = T_INT => described[c][1] \notin Range(columns_to_scan)
                /\ described[c][2] = T_VARCHAR255 => described[c][1] \in Range(columns_to_scan)
    /\ \A k \in 1..Len(all_findings) :
          LET loc == all_findings[k].Location IN
          /\ TypeIsTextual(TypeOf(loc.Host, loc.DB, loc.Table, loc.Column))
          /\ TypeOf(loc.Host, loc.DB, loc.Table, loc.Column) # T_INT

\* C8 witness: the table cards, with an INT, a bigint(20) and a VARCHAR(255)
\* column, is being scanned, and the lower-case json column of profiles has
\* given a finding.
C8_Witness ==
    /\ pc = "rows" /\ hi = 3
    /\ \E k \in 1..Len(all_findings) : all_findings[k].Location.Column = "doc"
    /\ \E k \in 1..Len(all_findings) : all_findings[k].Location.Table = "cards"

\* the findings of all_findings that came from table `table`
FindingsOf(table) == SelectSeq(all_findings, LAMBDA f : f.Location.Table = table)

\* C9: every stored finding is an unmasked, Luhn-valid candidate of 13 to
\* 19 digits found by pan_regex in the sanitised text of a cell of a
\* selected column, and its location is that cell's host, database, table,
\* column and 1-based row; the rows "no card here", "4111-1111-1111-1111",
\* "1234567890123" of cards give one finding, at Row 2.
C9_FindingsAreValidatedCells ==
    /\ \A k \in 1..Len(all_findings) :
          LET f == all_findings[k]
              loc == f.Location
          IN  \E h \in 1..Len(HOST_CONFIGS) :
              \E d \in 1..Len(HOST_CONFIGS[h].databases) :
                 /\ HOST_CONFIGS[h].host = loc.Host
                 /\ HOST_CONFIGS[h].databases[d] = loc.DB
                 /\ loc.Table \in Range(ShowTablesResult(loc.Host, loc.DB))
                 /\ LET described == DescribeResult(loc.Host, loc.DB, loc.Table)
                        data == SelectResult(loc.Host, loc.DB, loc.Table)
                    IN  \E c \in 1..Len(described) :
                           /\ described[c][1] = loc.Column
                           /\ TypeIsTextual(described[c][2])
                           /\ loc.Row \in 1..Len(data)
                           /\ f.PAN \in Range(FindAll(Sanitize(CellText(data[loc.Row][c]))))
                           /\ Len(f.PAN) \in MinPanLen..MaxPanLen
                           /\ IsDigitString(f.PAN)
                           /\ is_luhn_valid(f.PAN)
    /\ Len(FindingsOf("cards")) <= 1
    /\ \A k \in 1..Len(FindingsOf("cards")) :
          /\ FindingsOf("cards")[k].PAN = Visa16
          /\ FindingsOf("cards")[k].Location =
                [Host |-> "127.0.0.1", DB |-> "master", Table |-> "cards",
                 Column |-> "note", Row |-> 2]
    /\ (pc = "rows" /\ hi = 1 /\ di = 1 /\ CurTable = "cards" /\ ri > Len(rows))
          => Len(FindingsOf("cards")) = 1

\* C9 witness: the three rows of cards have been scanned and gave their one
\* finding.
C9_Witness ==
    /\ pc = "rows" /\ hi = 1 /\ di = 1 /\ CurTable = "cards" /\ ri > Len(rows)
    /\ Len(FindingsOf("cards")) = 1

\* the cursors of tables (not the SHOW TABLES cursor) not yet closed
OpenTableCursors == {c \in openCursors : c[3] # 0}

\* C10, as claimed: at most one connection and one table cursor are open
\* at any time, a database's connection is closed before the next database
\* is attempted, a table's cursor is closed before the next table is
\* scanned, and no connection or cursor is open when the scan has ended.
C10_NothingLeftOpen ==
    /\ Cardinality(openConns) <= 1
    /\ Cardinality(OpenTableCursors) <= 1
    /\ pc \in {"db", "host", "summary", "done"} => openConns = {}
    /\ pc = "table" => OpenTableCursors = {}
    /\ pc = "done" => openConns = {} /\ openCursors = {}

----------------------------------------------------------------------------
(* The pure functions, each applied once to an input drawn from a bounded *)
(* set; the scan has not started.                                          *)

Last(s) == s[Len(s)]

(* is_luhn_valid: claims C4, C5 *)

MaxShortLen == 3

LuhnChars == DigitChars \cup {"a", " ", "-"}

\* 4111...1 of length n
LuhnBase(n) == <<"4">> \o Rep("1", n - 1)

\* the inputs: the strings of 13 to 19 characters that differ from 4111...1
\* in at most two places, one of them any character, the other any digit;
\* every character alone; and the short strings over 0, 5 and a letter
InitLuhn ==
    /\ ScanInit /\ ret = FALSE /\ called = FALSE
    /\ \/ \E n \in MinPanLen..MaxPanLen : \E i, j \in 1..n :
              \E c \in LuhnChars, e \in DigitChars :
                  arg = Edit(Edit(LuhnBase(n), i, c), j, e)
       \/ \E c \in LuhnChars : arg = <<c>>
       \/ \E k \in 0..MaxShortLen : arg \in [1..k -> {"0", "5", "a"}]

ApplyLuhn ==
    /\ ~called
    /\ ret' = is_luhn_valid(arg)
    /\ called' = TRUE
    /\ UNCHANGED <<arg, scanVars>>

NextLuhn == ApplyLuhn

SpecLuhn == InitLuhn /\ [][NextLuhn]_vars

\* the k-th digit from the right as the Luhn sum counts it: doubled at the
\* even places, and 9 less when the doubled digit exceeds 9
LuhnTerm(card, k) ==
    LET d == IntOf(card[Len(card) - k + 1]) IN
    IF k % 2 = 0 THEN (IF 2 * d > 9 THEN 2 * d - 9 ELSE 2 * d) ELSE d

RECURSIVE LuhnSum(_, _)
LuhnSum(card, k) == IF k = 0 THEN 0 ELSE LuhnTerm(card, k) + LuhnSum(card, k - 1)

\* C4: for a string of 13 to 19 digits is_luhn_valid is true exactly when
\* the standard Luhn sum is divisible by 10; 4111111111111111 is valid and
\* 4111111111111112 is not.
C4_LuhnIsStandard ==
    (called /\ IsDigitString(arg) /\ Len(arg) \in MinPanLen..MaxPanLen) =>
        /\ ret = (LuhnSum(arg, Len(arg)) % 10 = 0)
        /\ arg = Visa16 => ret = TRUE
        /\ arg = Visa16Wrong => ret = FALSE

\* C4 witness: is_luhn_valid has returned true for 4111111111111111.
C4_Witness == called /\ arg = Visa16 /\ ret = TRUE

\* C5, as claimed: a single digit, and any string with a character that is
\* no digit, is invalid.
C5_SingleDigitOrMalformedInvalid ==
    (called /\ ((Len(arg) = 1 /\ IsDigitString(arg)) \/ ~IsDigitString(arg)))
        => ret = FALSE

(* mask_pan: claim C6 *)

MaskMaxLen == 12

\* the inputs: every string over a digit and a letter up to MaskMaxLen
\* characters, and 4111111111111111 with any one character replaced
InitMask ==
    /\ ScanInit /\ ret = <<>> /\ called = FALSE
    /\ \/ \E k \in 0..MaskMaxLen : arg \in [1..k -> {"1", "a"}]
       \/ \E i \in 1..Len(Visa16), c \in {"1", "4", "9", "*", "a"} :
              arg = Edit(Visa16, i, c)

ApplyMask ==
    /\ ~called
    /\ ret' = mask_pan(arg)
    /\ called' = TRUE
    /\ UNCHANGED <<arg, scanVars>>

NextMask == ApplyMask

SpecMask == InitMask /\ [][NextMask]_vars

\* C6: mask_pan gives "Invalid PAN" for fewer than 10 characters, and
\* otherwise a string as long as its argument with the same first 6 and last
\* 4 characters and '*' everywhere between; 4111111111111111 gives
\* 411111******1111.
C6_MaskShape ==
    called =>
        /\ Len(arg) < 10 => ret = <<"I","n","v","a","l","i","d"," ","P","A","N">>
        /\ Len(arg) >= 10 =>
              /\ Len(ret) = Len(arg)
              /\ \A i \in 1..6 : ret[i] = arg[i]
              /\ \A i \in (Len(arg) - 3)..Len(arg) : ret[i] = arg[i]
              /\ \A i \in 7..(Len(arg) - 4) : ret[i] = "*"
        /\ arg = Visa16 =>
              ret = <<"4","1","1","1","1","1","*","*","*","*","*","*","1","1","1","1">>

\* C6 witness: 4111111111111111 has been masked to 411111******1111.
C6_Witness ==
    /\ called /\ arg = Visa16
    /\ ret = <<"4","1","1","1","1","1","*","*","*","*","*","*","1","1","1","1">>

(* pan_regex.findall on digit strings: claim C3 *)

MaxDigits == 21

\* the inputs: the digit strings up to MaxDigits characters made of a run of
\* one digit followed by a run of another
InitExtract ==
    /\ ScanInit /\ ret = <<>> /\ called = FALSE
    /\ \E n \in 0..MaxDigits : \E i \in 0..n :
          \E a \in {"4", "1"}, b \in {"1", "0"} :
              arg = Rep(a, i) \o Rep(b, n - i)

ApplyFindAll ==
    /\ ~called
    /\ ret' = FindAll(arg)
    /\ called' = TRUE
    /\ UNCHANGED <<arg, scanVars>>

NextExtract == ApplyFindAll

SpecExtract == InitExtract /\ [][NextExtract]_vars

\* C3, as claimed: a digit string of 13 to 19 digits gives itself as the one
\* candidate, any other digit string gives none.
C3_OnlyWholeRuns ==
    (called /\ IsDigitString(arg)) =>
        ret = IF Len(arg) \in 13..19 THEN <<arg>> ELSE <<>>

(* the sanitiser followed by pan_regex.findall: claim C7 *)

MaxPad == 2

PadChars == {"1", " ", "-", "x"}

\* the inputs: every text made of up to MaxPad characters,
\* "4111 1111 1111 1111", and up to MaxPad characters more
InitSanitize ==
    /\ ScanInit /\ ret = <<>> /\ called = FALSE
    /\ \E m, n \in 0..MaxPad :
          \E before \in [1..m -> PadChars], after \in [1..n -> PadChars] :
              arg = before \o Visa16Spaced \o after

ApplySanitizeFindAll ==
    /\ ~called
    /\ ret' = FindAll(Sanitize(arg))
    /\ called' = TRUE
    /\ UNCHANGED <<arg, scanVars>>

NextSanitize == ApplySanitizeFindAll

SpecSanitize == InitSanitize /\ [][NextSanitize]_vars

\* C7, as claimed: any text that holds "4111 1111 1111 1111" gives the
\* candidate 4111111111111111.
C7_AnyContext ==
    (called /\ Contains(arg, Visa16Spaced)) => Visa16 \in Range(ret)

\* "4111 1111 1111 1111" stands at place i of the text and no digit touches
\* it once spaces and hyphens are gone
StandsAlone(text, i) ==
    /\ SubSeq(text, i, i + Len(Visa16Spaced) - 1) = Visa16Spaced
    /\ LET before == Sanitize(SubSeq(text, 1, i - 1))
           after == Sanitize(SubSeq(text, i + Len(Visa16Spaced), Len(text)))
       IN  /\ before = <<>> \/ Last(before) \notin DigitChars
           /\ after = <<>> \/ Head(after) \notin DigitChars

\* C7, amended: a text that holds "4111 1111 1111 1111" with no digit next to
\* it after spaces and hyphens are removed gives the candidate
\* 4111111111111111.
C7_StandingAlone ==
    (called /\ \E i \in 1..(Len(arg) - Len(Visa16Spaced) + 1) : StandsAlone(arg, i))
        => Visa16 \in Range(ret)

\* C7 witness: the number stood between "x-" and " x", and was found.
C7_Witness ==
    /\ called
    /\ arg = <<"x", "-">> \o Visa16Spaced \o <<" ", "x">>
    /\ StandsAlone(arg, 3)
    /\ ret = <<Visa16>>

====
